---- MODULE Spec2Model ----
(***************************************************************************)
(* Model of server/server.go: the connection acceptor (StartServer), the   *)
(* per-connection admission flow (Server.handle) with the two goroutines   *)
(* it starts (the extra-channel rejecter and the request dispatcher), and  *)
(* the pure helpers (filtername, parseDims).                               *)
(*                                                                         *)
(* A panic in any goroutine ends the whole Go process; this is the         *)
(* variable crash, which disables every action once it is set.             *)
(***************************************************************************)
EXTENDS Integers, Sequences, FiniteSets, TLC

\* ------------------------------------------------------------------ bounds
MaxConns == 2      \* TCP connections the acceptor is offered
MaxChans == 2      \* logical channels a peer offers on one connection
MaxReqs  == 2      \* channel requests the peers send in total
PoolSize == 2      \* identities the pool may be pre-populated with
MaxName  == 102    \* repetitions of a unit in a claimed user name
MaxBuf   == 9      \* bytes of a buffer given to parseDims
MaxLoad  == 4      \* connections, channels and requests of all peers together

Conns == 1..MaxConns

\* ------------------------------------------------------- program constants
maxlen == 100      \* server.go:105
Byte   == 256      \* uint8 arithmetic of r.Payload[3] + 4
NoID   == 0        \* ID(0), "no identity available"

\* ------------------------------------------------------------ pure helpers
\* \w of Go's regexp (RE2): ASCII letters, digits and underscore only.
WordChars ==
  {"B", "o", "b", "a", "p", "l", "y", "e", "r", "_",
   "0", "1", "2", "3", "4", "5", "6", "7", "8", "9"}

IsWordChar(ch) == ch \in WordChars

\* every match of \W is replaced by "": the word characters stay, in order
StripNonWord(s) == SelectSeq(s, IsWordChar)

\* filtername.ReplaceAllString(sshName, "")
filtername(s) == StripNonWord(s)

\* mutant of SanitizeName: the name is stripped but never cut
SanitizeNameNoCut(sshName) == filtername(sshName)

\* lines 103-108: strip, then cut to maxlen.  After stripping the name is
\* ASCII, so len (bytes) and []rune (code points) measure the same.
SanitizeName(sshName) ==
  LET name == filtername(sshName)
  IN  IF Len(name) > maxlen THEN SubSeq(name, 1, maxlen) ELSE name

Digit(d) == CASE d = 0 -> "0" [] d = 1 -> "1" [] d = 2 -> "2" [] d = 3 -> "3"
              [] d = 4 -> "4" [] d = 5 -> "5" [] d = 6 -> "6" [] d = 7 -> "7"
              [] d = 8 -> "8" [] d = 9 -> "9"

\* fmt.Sprintf("%d", id)
RECURSIVE FormatDecimal(_)
FormatDecimal(n) ==
  IF n < 10 THEN <<Digit(n)>> ELSE FormatDecimal(n \div 10) \o <<Digit(n % 10)>>

\* fmt.Sprintf("player-%d", id)
DefaultName(id) == <<"p", "l", "a", "y", "e", "r", "-">> \o FormatDecimal(id)

\* mutant of ResolveName: the default name is forgotten
ResolveNameKeepEmpty(name, id) == name

\* line 142-144
ResolveName(name, id) == IF name = <<>> THEN DefaultName(id) ELSE name

\* net.SplitHostPort(tcpConn.RemoteAddr().String()): the host part.
RemoteAddr(c) == [ip |-> <<"ip", c>>, port |-> 51000 + c]
SplitHostPort(addr) == addr.ip

\* hex md5 of the offered key (PublicKeyCallback); the empty string <<>> when
\* the callback saw no key (NoKey)
NoKey == 0
KeyHash(key) == IF key = NoKey THEN <<>> ELSE <<"md5", key>>

\* lines 146-150
ResolveHash(hash, c) == IF hash = <<>> THEN SplitHostPort(RemoteAddr(c)) ELSE hash

\* binary.BigEndian.Uint32 of the first four bytes of b
BigEndianUint32(b) ==
  ((b[1] * 256 + b[2]) * 256 + b[3]) * 256 + b[4]

\* b[n:] of Go, n counted from 0; the caller guarantees n <= len(b)
SliceFrom(b, n) == SubSeq(b, n + 1, Len(b))

ZeroDims == [width |-> 0, height |-> 0]

\* mutant of parseDims: a buffer of exactly 8 bytes counts as too short
parseDimsOffByOne(b) ==
  IF Len(b) <= 8 THEN ZeroDims
  ELSE [width |-> BigEndianUint32(b), height |-> BigEndianUint32(SliceFrom(b, 4))]

parseDims(b) ==
  IF Len(b) < 8 THEN ZeroDims
  ELSE [width |-> BigEndianUint32(b), height |-> BigEndianUint32(SliceFrom(b, 4))]

\* strlen+4 of line 177: strlen is a byte, so is the sum
PtyOffset(payload) == (payload[4] + 4) % Byte

\* line 176-177 panics (index / slice bounds out of range) on these payloads
PtyPanics(payload) ==
  IF Len(payload) < 4 THEN TRUE ELSE PtyOffset(payload) > Len(payload)

PtyDims(payload) == parseDims(SliceFrom(payload, PtyOffset(payload)))

\* mutant of ReplyOK: every shell request is accepted, payload or not
ReplyOKAnyShell(r) ==
  CASE r.type = "shell"   -> TRUE
    [] r.type = "pty-req" -> TRUE
    [] OTHER              -> FALSE

\* the reply value ok computed by the switch of lines 163-181
ReplyOK(r) ==
  CASE r.type = "shell"   -> Len(r.payload) = 0
    [] r.type = "pty-req" -> TRUE
    [] OTHER              -> FALSE

\* "continue // no response" of line 180
NeedsReply(r) == r.type # "window-change"

\* requests that forward a Resize Event on p.resizes
ForwardsResize(r) == r.type \in {"pty-req", "window-change"}

\* ------------------------------------------------------------ input sets
\* what PublicKeyCallback sees: the claimed user name and the offered key
Users ==
  { [name |-> <<"B", "o", "b", "!", "!">>, key |-> 1],
    [name |-> <<"!", "?">>,                key |-> NoKey] }
ChanTypes == {"session", "direct-tcpip"}

PayloadEmpty == <<>>
PayloadCmd   == <<108, 115>>
PayloadShort == <<0, 0, 0>>
PayloadPty   == <<0, 0, 0, 1, 120, 0, 0, 0, 80, 0, 0, 0, 24>>
PayloadTrunc == <<0, 0, 0, 5, 120>>
PayloadWrap  == <<0, 0, 0, 252, 0, 0, 0, 24>>
PayloadDims  == <<0, 0, 0, 80, 0, 0, 0, 24>>

Requests ==
  { [type |-> "shell",         payload |-> PayloadEmpty],
    [type |-> "shell",         payload |-> PayloadCmd],
    [type |-> "pty-req",       payload |-> PayloadPty],
    [type |-> "pty-req",       payload |-> PayloadShort],
    [type |-> "pty-req",       payload |-> PayloadTrunc],
    [type |-> "pty-req",       payload |-> PayloadWrap],
    [type |-> "window-change", payload |-> PayloadDims],
    [type |-> "window-change", payload |-> PayloadShort],
    [type |-> "exec",          payload |-> PayloadCmd] }

\* the pools the server may be started with: 1, 2, .. n for n <= PoolSize
RECURSIVE Iota(_)
Iota(n) == IF n = 0 THEN <<>> ELSE Append(Iota(n - 1), n)
InitialPools == { Iota(n) : n \in 0..PoolSize }

\* ------------------------------------------------------------------ state
VARIABLES
  pc,            \* position of the acceptor / handle flow for each connection
  crash,         \* "none", or the panic that ended the process
  sshName,       \* handle's sshName, set by PublicKeyCallback
  key,           \* the public key PublicKeyCallback was given, NoKey for nil
  hash,          \* handle's hash, set by PublicKeyCallback, then lines 146-150
  name,          \* handle's name (sanitized, then defaulted)
  closed,        \* the transport connection is closed
  chans,         \* channels offered on the connection, with their outcome
  taken,         \* how many of chans were received from the queue
  first,         \* handle's c: index in chans, 0 for a nil NewChannel
  rejecter,      \* the goroutine of lines 112-116
  idPool,        \* s.idPool, a buffered channel of identities
  id,            \* handle's id
  notice,        \* "This game is full." was written to the channel
  players,       \* the Player built by NewPlayer for the connection
  live,          \* connections whose session has not ended
  onlinePlayers, \* s.onlinePlayers: display name -> connection of the Player
  reqs,          \* channel requests sent by the peer (chanReqs)
  served,        \* how many of reqs the dispatcher received
  replies,       \* r.Reply calls, in order: [req, ok]
  disp,          \* the goroutine of lines 161-185
  resizes        \* Resize Events received from p.resizes by resizeWatch

vars == <<pc, crash, sshName, key, hash, name, closed, chans, taken, first,
          rejecter, idPool, id, notice, players, live, onlinePlayers,
          reqs, served, replies, disp, resizes>>

connVars  == <<sshName, key, hash, name>>
chanVars  == <<chans, taken, first, rejecter>>
poolVars  == <<idPool, id, notice>>
regVars   == <<players, live, onlinePlayers>>
reqVars   == <<reqs, served, replies, disp, resizes>>

NoPlayer == [id |-> NoID, sshName |-> <<>>, name |-> <<>>, hash |-> <<>>]

Init ==
  /\ pc = [c \in Conns |-> "pending"]
  /\ crash = "none"
  /\ sshName = [c \in Conns |-> <<>>]
  /\ key = [c \in Conns |-> NoKey]
  /\ hash = [c \in Conns |-> <<>>]
  /\ name = [c \in Conns |-> <<>>]
  /\ closed = [c \in Conns |-> FALSE]
  /\ chans = [c \in Conns |-> <<>>]
  /\ taken = [c \in Conns |-> 0]
  /\ first = [c \in Conns |-> 0]
  /\ rejecter = [c \in Conns |-> "none"]
  /\ idPool \in InitialPools
  /\ id = [c \in Conns |-> NoID]
  /\ notice = [c \in Conns |-> FALSE]
  /\ players = [c \in Conns |-> NoPlayer]
  /\ live = {}
  /\ onlinePlayers = [n \in {} |-> 0]
  /\ reqs = [c \in Conns |-> <<>>]
  /\ served = [c \in Conns |-> 0]
  /\ replies = [c \in Conns |-> <<>>]
  /\ disp = [c \in Conns |-> "none"]
  /\ resizes = [c \in Conns |-> <<>>]

Running == crash = "none"

\* --------------------------------------------------------------- acceptor
\* what the peers have sent so far: connections, channel offers, requests
RECURSIVE SumLen(_, _)
SumLen(f, n) == IF n = 0 THEN 0 ELSE Len(f[n]) + SumLen(f, n - 1)
TotalReqs == SumLen(reqs, MaxConns)
Load ==
  Cardinality({c \in Conns : pc[c] # "pending"}) + SumLen(chans, MaxConns)
    + TotalReqs

\* StartServer's loop takes the connections in order.
NextConn(c) == pc[c] = "pending" /\ \A d \in Conns : d < c => pc[d] # "pending"

\* lines 70-76: AcceptTCP fails (logged, continue) or handle is started
AcceptTCP(c) ==
  /\ Running
  /\ NextConn(c)
  /\ Load < MaxLoad
  /\ \E ok \in BOOLEAN :
       pc' = [pc EXCEPT ![c] = IF ok THEN "handshake" ELSE "acceptErr"]
  /\ UNCHANGED <<crash, connVars, closed, chanVars, poolVars, regVars, reqVars>>

\* ----------------------------------------------------------------- handle
\* lines 84-108, handshake succeeded: PublicKeyCallback recorded the user
\* name and the key hash, the name is sanitized
HandshakeOK(c) ==
  /\ Running
  /\ pc[c] = "handshake"
  /\ \E u \in Users :
       /\ sshName' = [sshName EXCEPT ![c] = u.name]
       /\ key' = [key EXCEPT ![c] = u.key]
       /\ hash' = [hash EXCEPT ![c] = KeyHash(u.key)]
       /\ name' = [name EXCEPT ![c] = SanitizeName(u.name)]
  /\ pc' = [pc EXCEPT ![c] = "waitChan"]
  /\ UNCHANGED <<crash, closed, chanVars, poolVars, regVars, reqVars>>

\* mutant of HandshakeFail: the failure is fatal (log.Fatal for s.logf)
HandshakeFailFatal(c) ==
  /\ Running
  /\ pc[c] = "handshake"
  /\ pc' = [pc EXCEPT ![c] = "done"]
  /\ crash' = "fatal"
  /\ UNCHANGED <<connVars, closed, chanVars, poolVars, regVars, reqVars>>

\* lines 95-99: handshake failed, handle returns
HandshakeFail(c) ==
  /\ Running
  /\ pc[c] = "handshake"
  /\ pc' = [pc EXCEPT ![c] = "done"]
  /\ UNCHANGED <<crash, connVars, closed, chanVars, poolVars, regVars, reqVars>>

\* the handshake is done and handle has not returned
Established(c) ==
  pc[c] \in {"waitChan", "checkType", "draw", "insert", "publish"}

\* lines 110-116: c := <-chans (nil when chans is closed and drained), then
\* the rejecter goroutine is started
HandleFirstChannel(c) ==
  /\ Running
  /\ pc[c] = "waitChan"
  /\ \/ /\ taken[c] < Len(chans[c])
        /\ first' = [first EXCEPT ![c] = taken[c] + 1]
        /\ taken' = [taken EXCEPT ![c] = taken[c] + 1]
     \/ /\ taken[c] = Len(chans[c])
        /\ closed[c]
        /\ UNCHANGED <<first, taken>>
  /\ rejecter' = [rejecter EXCEPT ![c] = "running"]
  /\ pc' = [pc EXCEPT ![c] = "checkType"]
  /\ UNCHANGED <<crash, connVars, closed, chans, poolVars, regVars, reqVars>>

SetOutcome(c, i, o) == [chans EXCEPT ![c][i].outcome = o]

\* line 118 on a nil NewChannel: nil pointer dereference
HandleNilChannel(c) ==
  /\ Running
  /\ pc[c] = "checkType"
  /\ first[c] = 0
  /\ crash' = "nil channel"
  /\ UNCHANGED <<pc, connVars, closed, chanVars, poolVars, regVars, reqVars>>

\* mutant of HandleRejectType: the channel is rejected, sshConn.Close() is
\* forgotten
HandleRejectTypeKeepOpen(c) ==
  /\ Running
  /\ pc[c] = "checkType"
  /\ first[c] # 0
  /\ chans[c][first[c]].type # "session"
  /\ chans' = SetOutcome(c, first[c], "unknown channel type")
  /\ pc' = [pc EXCEPT ![c] = "done"]
  /\ UNCHANGED <<crash, connVars, closed, taken, first, rejecter, poolVars,
                 regVars, reqVars>>

\* lines 118-122: the first channel is not a session
HandleRejectType(c) ==
  /\ Running
  /\ pc[c] = "checkType"
  /\ first[c] # 0
  /\ chans[c][first[c]].type # "session"
  /\ chans' = SetOutcome(c, first[c], "unknown channel type")
  /\ closed' = [closed EXCEPT ![c] = TRUE]
  /\ pc' = [pc EXCEPT ![c] = "done"]
  /\ UNCHANGED <<crash, connVars, taken, first, rejecter, poolVars, regVars,
                 reqVars>>

\* line 123, c.Accept() succeeds (it cannot once the transport is closed)
HandleAccept(c) ==
  /\ Running
  /\ pc[c] = "checkType"
  /\ first[c] # 0
  /\ chans[c][first[c]].type = "session"
  /\ ~closed[c]
  /\ chans' = SetOutcome(c, first[c], "accepted")
  /\ pc' = [pc EXCEPT ![c] = "draw"]
  /\ UNCHANGED <<crash, connVars, closed, taken, first, rejecter, poolVars,
                 regVars, reqVars>>

\* lines 123-128, c.Accept() fails
HandleAcceptFail(c) ==
  /\ Running
  /\ pc[c] = "checkType"
  /\ first[c] # 0
  /\ chans[c][first[c]].type = "session"
  /\ chans' = SetOutcome(c, first[c], "accept failed")
  /\ closed' = [closed EXCEPT ![c] = TRUE]
  /\ pc' = [pc EXCEPT ![c] = "done"]
  /\ UNCHANGED <<crash, connVars, taken, first, rejecter, poolVars, regVars,
                 reqVars>>

\* mutant of DrawRest: the identity is read but stays in the pool
DrawRestKeep(pool) == pool

\* lines 130-134: select { case id, _ = <-s.idPool: default: }
DrawRest(pool) == IF pool = <<>> THEN pool ELSE Tail(pool)
DrawID(pool) == IF pool = <<>> THEN NoID ELSE Head(pool)

\* mutant of HandleFull: a blocking receive (id := <-s.idPool), which only
\* goes on when the pool holds a value
HandleFullBlocking(c) ==
  /\ Running
  /\ pc[c] = "draw"
  /\ idPool # <<>>
  /\ DrawID(idPool) = NoID
  /\ idPool' = DrawRest(idPool)
  /\ notice' = [notice EXCEPT ![c] = TRUE]
  /\ closed' = [closed EXCEPT ![c] = TRUE]
  /\ pc' = [pc EXCEPT ![c] = "done"]
  /\ UNCHANGED <<crash, connVars, chanVars, id, regVars, reqVars>>

\* lines 129-140: nothing drawn, the full-game notice, close, return
HandleFull(c) ==
  /\ Running
  /\ pc[c] = "draw"
  /\ DrawID(idPool) = NoID
  /\ idPool' = DrawRest(idPool)
  /\ notice' = [notice EXCEPT ![c] = TRUE]
  /\ closed' = [closed EXCEPT ![c] = TRUE]
  /\ pc' = [pc EXCEPT ![c] = "done"]
  /\ UNCHANGED <<crash, connVars, chanVars, id, regVars, reqVars>>

\* lines 129-152: an identity is drawn, name and hash get their defaults and
\* NewPlayer builds the Player
HandleDraw(c) ==
  /\ Running
  /\ pc[c] = "draw"
  /\ DrawID(idPool) # NoID
  /\ LET i == DrawID(idPool)
         n == ResolveName(name[c], i)
         h == ResolveHash(hash[c], c)
     IN  /\ id' = [id EXCEPT ![c] = i]
         /\ name' = [name EXCEPT ![c] = n]
         /\ hash' = [hash EXCEPT ![c] = h]
         /\ players' = [players EXCEPT ![c] =
                          [id |-> i, sshName |-> sshName[c], name |-> n,
                           hash |-> h]]
  /\ idPool' = DrawRest(idPool)
  /\ live' = live \cup {c}
  /\ pc' = [pc EXCEPT ![c] = "insert"]
  /\ UNCHANGED <<crash, sshName, key, closed, chanVars, notice, onlinePlayers,
                 reqVars>>

\* mutant of MapAssign: an entry already there is kept
MapAssignKeepFirst(m, k, v) ==
  [n \in DOMAIN m \cup {k} |-> IF n \in DOMAIN m THEN m[n] ELSE v]

MapAssign(m, k, v) == [n \in DOMAIN m \cup {k} |-> IF n = k THEN v ELSE m[n]]

\* another flow is at the map assignment of line 153 as well: the map is
\* written without a lock, so the two writes race
RacingInsert(c) == \E d \in Conns \ {c} : pc[d] = "insert"

\* mutant of HandleInsert: the Player is published without being registered
HandleInsertNoRegister(c) ==
  /\ Running
  /\ pc[c] = "insert"
  /\ disp' = [disp EXCEPT ![c] = "idle"]
  /\ pc' = [pc EXCEPT ![c] = "publish"]
  /\ UNCHANGED <<crash, connVars, closed, chanVars, poolVars, regVars,
                 reqs, served, replies, resizes>>

\* lines 153-186: the assignment lands, God, receiveActions, resizeWatch and
\* the dispatcher are started, and handle blocks in s.newPlayers <- p.
\* NewServer leaves s.newPlayers nil (line 44 is commented out); a send on a
\* nil channel never completes, so no action leaves "publish".
HandleInsert(c) ==
  /\ Running
  /\ pc[c] = "insert"
  /\ onlinePlayers' = MapAssign(onlinePlayers, players[c].name, c)
  /\ disp' = [disp EXCEPT ![c] = "idle"]
  /\ pc' = [pc EXCEPT ![c] = "publish"]
  /\ UNCHANGED <<crash, connVars, closed, chanVars, poolVars, players, live,
                 reqs, served, replies, resizes>>

\* line 153 while another flow writes the map: the runtime may detect the
\* race and end the process ("fatal error: concurrent map writes")
HandleInsertRace(c) ==
  /\ Running
  /\ pc[c] = "insert"
  /\ RacingInsert(c)
  /\ crash' = "concurrent map writes"
  /\ UNCHANGED <<pc, connVars, closed, chanVars, poolVars, regVars, reqVars>>

\* mutant of RejectExtra: the further channels are rejected with the reason
\* of the type check
RejectExtraUnknownType(c) ==
  /\ Running
  /\ rejecter[c] = "running"
  /\ taken[c] < Len(chans[c])
  /\ chans' = SetOutcome(c, taken[c] + 1, "unknown channel type")
  /\ taken' = [taken EXCEPT ![c] = taken[c] + 1]
  /\ UNCHANGED <<pc, crash, connVars, closed, first, rejecter, poolVars,
                 regVars, reqVars>>

\* lines 112-116: every further channel is rejected; the loop ends when
\* chans is closed and drained
RejectExtra(c) ==
  /\ Running
  /\ rejecter[c] = "running"
  /\ taken[c] < Len(chans[c])
  /\ chans' = SetOutcome(c, taken[c] + 1, "prohibited")
  /\ taken' = [taken EXCEPT ![c] = taken[c] + 1]
  /\ UNCHANGED <<pc, crash, connVars, closed, first, rejecter, poolVars,
                 regVars, reqVars>>

RejecterExit(c) ==
  /\ Running
  /\ rejecter[c] = "running"
  /\ taken[c] = Len(chans[c])
  /\ closed[c]
  /\ rejecter' = [rejecter EXCEPT ![c] = "done"]
  /\ UNCHANGED <<pc, crash, connVars, closed, chans, taken, first, poolVars,
                 regVars, reqVars>>

\* ------------------------------------------------------------- dispatcher
CurrentReq(c) == reqs[c][served[c]]

Reply(c, i, ok) == [replies EXCEPT ![c] = Append(@, [req |-> i, ok |-> ok])]

\* lines 162-171, 181-183: a request that forwards nothing is replied to
DispatchReply(c) ==
  /\ Running
  /\ disp[c] = "idle"
  /\ served[c] < Len(reqs[c])
  /\ LET i == served[c] + 1
         r == reqs[c][i]
     IN  /\ ~ForwardsResize(r)
         /\ replies' = Reply(c, i, ReplyOK(r))
         /\ served' = [served EXCEPT ![c] = i]
  /\ UNCHANGED <<pc, crash, connVars, closed, chanVars, poolVars, regVars,
                 reqs, disp, resizes>>

\* lines 172-179: the Resize Event is decoded and the dispatcher blocks in
\* p.resizes <- ...
DispatchResize(c) ==
  /\ Running
  /\ disp[c] = "idle"
  /\ served[c] < Len(reqs[c])
  /\ LET i == served[c] + 1
         r == reqs[c][i]
     IN  /\ ForwardsResize(r)
         /\ r.type = "pty-req" => ~PtyPanics(r.payload)
         /\ served' = [served EXCEPT ![c] = i]
  /\ disp' = [disp EXCEPT ![c] = "sendResize"]
  /\ UNCHANGED <<pc, crash, connVars, closed, chanVars, poolVars, regVars,
                 reqs, replies, resizes>>

\* lines 176-177: r.Payload[3] or r.Payload[strlen+4:] is out of range
DispatchPanic(c) ==
  /\ Running
  /\ disp[c] = "idle"
  /\ served[c] < Len(reqs[c])
  /\ LET i == served[c] + 1
         r == reqs[c][i]
     IN  /\ r.type = "pty-req"
         /\ PtyPanics(r.payload)
         /\ served' = [served EXCEPT ![c] = i]
  /\ crash' = "pty-req payload"
  /\ UNCHANGED <<pc, connVars, closed, chanVars, poolVars, regVars, reqs,
                 replies, disp, resizes>>

\* the Resize Event the dispatcher is sending
ResizeOf(r) ==
  IF r.type = "pty-req" THEN PtyDims(r.payload) ELSE parseDims(r.payload)

\* resizeWatch receives from p.resizes; the dispatcher goes on with lines
\* 177-183: pty-req is replied to, window-change is not
ResizeWatch(c) ==
  /\ Running
  /\ disp[c] = "sendResize"
  /\ c \in live
  /\ resizes' = [resizes EXCEPT ![c] = Append(@, ResizeOf(CurrentReq(c)))]
  /\ replies' = IF NeedsReply(CurrentReq(c))
                THEN Reply(c, served[c], ReplyOK(CurrentReq(c)))
                ELSE replies
  /\ disp' = [disp EXCEPT ![c] = "idle"]
  /\ UNCHANGED <<pc, crash, connVars, closed, chanVars, poolVars, regVars,
                 reqs, served>>

\* line 162: chanReqs is closed and drained, the loop ends
DispatchExit(c) ==
  /\ Running
  /\ disp[c] = "idle"
  /\ served[c] = Len(reqs[c])
  /\ closed[c]
  /\ disp' = [disp EXCEPT ![c] = "done"]
  /\ UNCHANGED <<pc, crash, connVars, closed, chanVars, poolVars, regVars,
                 reqs, served, replies, resizes>>

\* ------------------------------------------------------------ environment
\* the peer opens a channel on an established connection
PeerOpenChannel(c) ==
  /\ Running
  /\ Established(c)
  /\ ~closed[c]
  /\ Len(chans[c]) < MaxChans
  /\ Load < MaxLoad
  /\ \E t \in ChanTypes :
       chans' = [chans EXCEPT ![c] = Append(@, [type |-> t, outcome |-> "offered"])]
  /\ UNCHANGED <<pc, crash, connVars, closed, taken, first, rejecter, poolVars,
                 regVars, reqVars>>

ChannelOpen(c) ==
  /\ first[c] # 0
  /\ chans[c][first[c]].outcome = "accepted"
  /\ ~closed[c]

\* the peer sends a request on its accepted channel
PeerRequest(c) ==
  /\ Running
  /\ ChannelOpen(c)
  /\ TotalReqs < MaxReqs
  /\ Load < MaxLoad
  /\ \E r \in Requests : reqs' = [reqs EXCEPT ![c] = Append(@, r)]
  /\ UNCHANGED <<pc, crash, connVars, closed, chanVars, poolVars, regVars,
                 served, replies, disp, resizes>>

\* the peer closes the transport: chans and chanReqs are closed
PeerDisconnect(c) ==
  /\ Running
  /\ Established(c)
  /\ ~closed[c]
  /\ closed' = [closed EXCEPT ![c] = TRUE]
  /\ UNCHANGED <<pc, crash, connVars, chanVars, poolVars, regVars, reqVars>>

MapDelete(m, k) == [n \in DOMAIN m \ {k} |-> m[n]]

\* the session ends after its transport is gone: its identity goes back to
\* the pool and its registry entry, if still its own, is deleted
PlayerLeave(c) ==
  /\ Running
  /\ c \in live
  /\ closed[c]
  /\ pc[c] = "publish"
  /\ live' = live \ {c}
  /\ idPool' = Append(idPool, players[c].id)
  /\ onlinePlayers' =
       IF players[c].name \in DOMAIN onlinePlayers
          /\ onlinePlayers[players[c].name] = c
       THEN MapDelete(onlinePlayers, players[c].name)
       ELSE onlinePlayers
  /\ UNCHANGED <<pc, crash, connVars, closed, chanVars, id, notice, players,
                 reqVars>>

\* ---------------------------------------------------------- specification
Next ==
  \E c \in Conns :
    \/ AcceptTCP(c)
    \/ HandshakeOK(c)
    \/ HandshakeFail(c)
    \/ HandleFirstChannel(c)
    \/ HandleNilChannel(c)
    \/ HandleRejectType(c)
    \/ HandleAccept(c)
    \/ HandleAcceptFail(c)
    \/ HandleFull(c)
    \/ HandleDraw(c)
    \/ HandleInsert(c)
    \/ HandleInsertRace(c)
    \/ RejectExtra(c)
    \/ RejecterExit(c)
    \/ DispatchReply(c)
    \/ DispatchResize(c)
    \/ DispatchPanic(c)
    \/ DispatchExit(c)
    \/ ResizeWatch(c)
    \/ PeerOpenChannel(c)
    \/ PeerRequest(c)
    \/ PeerDisconnect(c)
    \/ PlayerLeave(c)

Spec == Init /\ [][Next]_vars

\* the goroutines of one connection, for the fairness of the Go scheduler
Handle(c) ==
  \/ HandshakeOK(c) \/ HandshakeFail(c) \/ HandleFirstChannel(c)
  \/ HandleNilChannel(c) \/ HandleRejectType(c) \/ HandleAccept(c)
  \/ HandleAcceptFail(c) \/ HandleFull(c) \/ HandleDraw(c)
  \/ HandleInsert(c) \/ HandleInsertRace(c)

Rejecter(c) == RejectExtra(c) \/ RejecterExit(c)

Dispatcher(c) ==
  DispatchReply(c) \/ DispatchResize(c) \/ DispatchPanic(c) \/ DispatchExit(c)

\* every goroutine that can run does run, and resizeWatch keeps receiving;
\* nothing is assumed about the peers
FairSpec ==
  /\ Spec
  /\ \A c \in Conns :
       /\ WF_vars(Handle(c))
       /\ WF_vars(Rejecter(c))
       /\ WF_vars(Dispatcher(c))
       /\ WF_vars(ResizeWatch(c))

\* --------------------------------------------------------------- C1
Accepted(c) == {i \in 1..Len(chans[c]) : chans[c][i].outcome = "accepted"}

\* C1: on every connection at most one channel is accepted, it is the first
\* one offered, and every later channel the server has taken from the queue
\* was rejected as prohibited (never accepted, never another reason),
\* whatever its type and whatever became of the first channel.
C1_OneChannel ==
  \A c \in Conns :
    /\ Cardinality(Accepted(c)) <= 1
    /\ \A i \in 1..Len(chans[c]) :
         /\ i >= 2 => chans[c][i].outcome \in {"offered", "prohibited"}
         /\ (i >= 2 /\ i <= taken[c]) => chans[c][i].outcome = "prohibited"
         /\ chans[c][i].outcome # "offered" => i <= taken[c]

C1_Witness ==
  \E c \in Conns :
    /\ Len(chans[c]) = 2
    /\ chans[c][1].outcome = "accepted"
    /\ chans[c][2].type = "session"
    /\ chans[c][2].outcome = "prohibited"

\* --------------------------------------------------------------- C2
Registered == {onlinePlayers[n] : n \in DOMAIN onlinePlayers}

NonSessionFirst(c) ==
  /\ first[c] # 0
  /\ chans[c][first[c]].type # "session"
  /\ pc[c] # "checkType"

\* C2: a connection whose first channel is not a session has that channel
\* rejected as an unknown channel type and its transport closed; it draws no
\* identity, builds no Player, is not in onlinePlayers and never reaches the
\* send on newPlayers.
C2_NonSessionRejected ==
  \A c \in Conns :
    NonSessionFirst(c) =>
      /\ chans[c][first[c]].outcome = "unknown channel type"
      /\ closed[c]
      /\ pc[c] = "done"
      /\ id[c] = NoID
      /\ players[c] = NoPlayer
      /\ c \notin live
      /\ c \notin Registered
      /\ disp[c] = "none"

C2_Witness ==
  \E c \in Conns : NonSessionFirst(c) /\ closed[c] /\ Len(idPool) > 0

\* --------------------------------------------------------------- C3
\* C3: a flow at the draw with an empty pool can always take its step (the
\* draw never waits), and that step writes the full-game notice, closes the
\* connection and ends the flow, drawing nothing, leaving the registry and
\* the players as they were and never reaching the publish.
C3_FullGame ==
  /\ [](\A c \in Conns :
          (Running /\ pc[c] = "draw" /\ idPool = <<>>) => ENABLED HandleFull(c))
  /\ [][\A c \in Conns :
          (pc[c] = "draw" /\ idPool = <<>> /\ pc'[c] # "draw") =>
            /\ notice'[c]
            /\ closed'[c]
            /\ pc'[c] = "done"
            /\ id'[c] = NoID
            /\ idPool' = <<>>
            /\ onlinePlayers' = onlinePlayers
            /\ players' = players
            /\ live' = live]_vars

\* a second connection is turned away while the first holds the only identity
C3_Witness ==
  \E c, d \in Conns :
    /\ c # d
    /\ d \in live
    /\ idPool = <<>>
    /\ notice[c]
    /\ pc[c] = "done"

\* --------------------------------------------------------------- C4
\* C4: two sessions that are live at the same time never hold the same
\* identity, and a live session never holds the sentinel.
C4_UniqueIdentity ==
  \A c, d \in live :
    /\ players[c].id # NoID
    /\ c # d => players[c].id # players[d].id

C4_Witness ==
  \E c, d \in live : c # d /\ pc[c] = "publish" /\ pc[d] = "publish"

\* --------------------------------------------------------------- C5
ReplyCount(c, i) ==
  Cardinality({k \in 1..Len(replies[c]) : replies[c][k].req = i})

Arrived(c, i) == disp[c] # "none" /\ i <= Len(reqs[c])

\* C5: while the session lives, every request other than window-change that
\* arrived on the admitted channel is eventually replied to exactly once; no
\* request is ever replied to twice and window-change never is.
C5_EveryRequestReplied ==
  /\ [](\A c \in Conns : \A i \in 1..Len(reqs[c]) :
          /\ ReplyCount(c, i) <= 1
          /\ ~NeedsReply(reqs[c][i]) => ReplyCount(c, i) = 0)
  /\ \A c \in Conns : \A i \in 1..MaxReqs :
       (Arrived(c, i) /\ NeedsReply(reqs[c][i]))
         ~> (ReplyCount(c, i) = 1 \/ c \notin live)

\* --------------------------------------------------------------- C6
\* C6: of the replies sent, one to a shell request is an accept exactly when
\* the payload is empty, and one to a request that is neither shell nor
\* pty-req (window-change gets none) is a decline.
C6_ShellReply ==
  \A c \in Conns : \A k \in 1..Len(replies[c]) :
    LET r == reqs[c][replies[c][k].req]
        ok == replies[c][k].ok
    IN  /\ r.type = "shell" => (ok <=> Len(r.payload) = 0)
        /\ r.type \notin {"shell", "pty-req", "window-change"} => ~ok

C6_Witness ==
  \E c \in Conns : \E k \in 1..Len(replies[c]) :
    /\ reqs[c][replies[c][k].req].type = "shell"
    /\ reqs[c][replies[c][k].req].payload # <<>>
    /\ ~replies[c][k].ok

\* --------------------------------------------------------------- C7
Acked(c, i) == \E k \in 1..Len(replies[c]) : replies[c][k] = [req |-> i, ok |-> TRUE]

\* C7: every pty-req the dispatcher has taken up, whatever its payload, is
\* either still being forwarded as a Resize Event or has been forwarded and
\* acknowledged; the dispatcher never fails on it.
C7_PtyAlwaysAcked ==
  \A c \in Conns : \A i \in 1..served[c] :
    reqs[c][i].type = "pty-req" =>
      /\ crash # "pty-req payload"
      /\ \/ (i = served[c] /\ disp[c] = "sendResize")
         \/ Acked(c, i)

\* --------------------------------------------------------------- C8
\* C8: the step that brings a flow to the send on newPlayers has just put
\* its Player into onlinePlayers under the Player's name, and a flow at the
\* send stays there: it never goes on without a receiver taking the Player.
C8_InsertThenPublish ==
  [][\A c \in Conns :
       /\ (pc[c] # "publish" /\ pc'[c] = "publish") =>
            /\ players'[c].name \in DOMAIN onlinePlayers'
            /\ onlinePlayers'[players'[c].name] = c
            /\ players'[c].name = name'[c]
       /\ pc[c] = "publish" => pc'[c] = "publish"]_vars

C8_Witness ==
  \E c \in Conns : pc[c] = "publish" /\ c \in Registered

\* --------------------------------------------------------------- C9
Admitted(c) == players[c] # NoPlayer

\* the send of line 186 completed: handle returned after building a Player
Delivered(c) == Admitted(c) /\ pc[c] = "done"

\* C9: every admitted connection's session is eventually delivered on
\* newPlayers.
C9_EventuallyDelivered ==
  \A c \in Conns : Admitted(c) ~> Delivered(c)

\* --------------------------------------------------------------- C10
HandshakeFailed(c) == pc[c] = "handshake" /\ pc'[c] = "done"

AcceptFailed(c) ==
  /\ pc[c] = "checkType"
  /\ pc'[c] = "done"
  /\ chans'[c][first[c]].outcome = "accept failed"

\* C10: the step on which a handshake or a channel accept fails ends that
\* flow only: the pool, the drawn identities, the players and the registry
\* are unchanged, the process goes on, and every other connection, accepted
\* or still to be accepted, is where it was.
C10_FailureIsLocal ==
  [][\A c \in Conns :
       (HandshakeFailed(c) \/ AcceptFailed(c)) =>
         /\ idPool' = idPool
         /\ id' = id
         /\ players' = players
         /\ live' = live
         /\ onlinePlayers' = onlinePlayers
         /\ crash' = "none"
         /\ \A d \in Conns \ {c} : pc'[d] = pc[d]]_vars

\* after a failed channel accept another connection is admitted
C10_Witness ==
  \E c, d \in Conns :
    /\ c < d
    /\ first[c] # 0
    /\ chans[c][first[c]].outcome = "accept failed"
    /\ pc[d] = "publish"


\* ------------------------------------------------- the pure functions
\* A specification of their own for the name sanitizer and parseDims: the
\* input is drawn in the initial state, one step applies the function as
\* handle (lines 103-108) and the dispatcher (line 179) do.
Repeat(unit, n) ==
  [i \in 1..(n * Len(unit)) |-> unit[((i - 1) % Len(unit)) + 1]]

\* claimed user names: word characters, punctuation, a non-ASCII letter
NameUnits == { <<"a">>, <<"b", "!">>, <<"U+00E9", "_">>, <<"-", "?">> }
NameInputs == { Repeat(u, n) : u \in NameUnits, n \in 0..MaxName }

ByteVals == {0, 24, 80}
Buffers == UNION { [1..n -> ByteVals] : n \in 0..MaxBuf }

InitPure ==
  /\ crash = "none"
  /\ key = [c \in Conns |-> NoKey]
  /\ hash = [c \in Conns |-> <<>>]
  /\ name = [c \in Conns |-> <<>>]
  /\ closed = [c \in Conns |-> FALSE]
  /\ chans = [c \in Conns |-> <<>>]
  /\ taken = [c \in Conns |-> 0]
  /\ first = [c \in Conns |-> 0]
  /\ rejecter = [c \in Conns |-> "none"]
  /\ idPool = <<>>
  /\ id = [c \in Conns |-> NoID]
  /\ notice = [c \in Conns |-> FALSE]
  /\ players = [c \in Conns |-> NoPlayer]
  /\ live = {}
  /\ onlinePlayers = [n \in {} |-> 0]
  /\ served = [c \in Conns |-> 0]
  /\ replies = [c \in Conns |-> <<>>]
  /\ disp = [c \in Conns |-> "none"]
  /\ resizes = [c \in Conns |-> <<>>]
  /\ \/ /\ pc = [c \in Conns |-> IF c = 1 THEN "sanitize" ELSE "pending"]
        /\ \E u \in NameInputs : sshName = [c \in Conns |-> IF c = 1 THEN u ELSE <<>>]
        /\ reqs = [c \in Conns |-> <<>>]
     \/ /\ pc = [c \in Conns |-> IF c = 1 THEN "parse" ELSE "pending"]
        /\ sshName = [c \in Conns |-> <<>>]
        /\ \E b \in Buffers :
             reqs = [c \in Conns |->
                       IF c = 1 THEN <<[type |-> "window-change", payload |-> b]>>
                       ELSE <<>>]

\* lines 103-108 applied to the claimed name
ApplySanitize ==
  /\ pc[1] = "sanitize"
  /\ name' = [name EXCEPT ![1] = SanitizeName(sshName[1])]
  /\ pc' = [pc EXCEPT ![1] = "sanitized"]
  /\ UNCHANGED <<crash, sshName, key, hash, closed, chanVars, poolVars,
                 regVars, reqVars>>

\* parseDims(r.Payload) of line 179 applied to the buffer
ApplyParseDims ==
  /\ pc[1] = "parse"
  /\ resizes' = [resizes EXCEPT ![1] = <<parseDims(reqs[1][1].payload)>>]
  /\ pc' = [pc EXCEPT ![1] = "parsed"]
  /\ UNCHANGED <<crash, connVars, closed, chanVars, poolVars, regVars, reqs,
                 served, replies, disp>>

NextPure == ApplySanitize \/ ApplyParseDims

SpecPure == InitPure /\ [][NextPure]_vars

\* --------------------------------------------------------------- C11
\* the word characters of RE2's \w, written out
AsciiWord ==
  {"0", "1", "2", "3", "4", "5", "6", "7", "8", "9", "_",
   "A", "B", "C", "D", "E", "F", "G", "H", "I", "J", "K", "L", "M",
   "N", "O", "P", "Q", "R", "S", "T", "U", "V", "W", "X", "Y", "Z",
   "a", "b", "c", "d", "e", "f", "g", "h", "i", "j", "k", "l", "m",
   "n", "o", "p", "q", "r", "s", "t", "u", "v", "w", "x", "y", "z"}

\* C11: the name handle computes from any claimed user name holds word
\* characters only and is at most 100 characters long.
C11_SanitizedName ==
  pc[1] = "sanitized" =>
    /\ Len(name[1]) <= 100
    /\ \A i \in 1..Len(name[1]) : name[1][i] \in AsciiWord

\* a name of more than 100 word characters, mixed with others, was cut
C11_Witness ==
  /\ pc[1] = "sanitized"
  /\ Len(sshName[1]) > 200
  /\ \E i \in 1..Len(sshName[1]) : sshName[1][i] \notin AsciiWord
  /\ Len(name[1]) = 100

\* --------------------------------------------------------------- C12
\* the big-endian 32-bit value of the four bytes of b after the first n
BigEndianAt(b, n) ==
  b[n + 1] * 16777216 + b[n + 2] * 65536 + b[n + 3] * 256 + b[n + 4]

\* C12: parseDims gives (0, 0) for a buffer of fewer than 8 bytes, and for
\* a longer one the big-endian value of bytes 0..3 as width and of bytes
\* 4..7 as height; 00 00 00 50 00 00 00 18 gives 80 by 24.
C12_ParseDims ==
  pc[1] = "parsed" =>
    LET b == reqs[1][1].payload
        d == resizes[1][1]
    IN  /\ Len(b) < 8 => (d.width = 0 /\ d.height = 0)
        /\ Len(b) >= 8 =>
             (d.width = BigEndianAt(b, 0) /\ d.height = BigEndianAt(b, 4))
        /\ b = <<0, 0, 0, 80, 0, 0, 0, 24>> => (d.width = 80 /\ d.height = 24)

C12_Witness ==
  /\ pc[1] = "parsed"
  /\ reqs[1][1].payload = <<0, 0, 0, 80, 0, 0, 0, 24>>
  /\ resizes[1][1] = [width |-> 80, height |-> 24]


\* --------------------------------------------------------------- C13
WordsOf(s) == SelectSeq(s, LAMBDA ch : ch \in AsciiWord)

\* C13: every session in the registry is registered under its own name, has
\* a non-empty name and a non-empty fingerprint; the name is the word
\* characters of the claimed user name, or "player-<identity>" exactly when
\* there are none; the fingerprint is the hash of the key the callback was
\* given, or without a key the peer's IP address, port stripped.
C13_NameAndFingerprint ==
  \A n \in DOMAIN onlinePlayers :
    LET c == onlinePlayers[n]
        p == players[c]
        w == WordsOf(sshName[c])
    IN  /\ p.name = n
        /\ p.name # <<>>
        /\ p.hash # <<>>
        /\ p.id # NoID
        /\ p.sshName = sshName[c]
        /\ w # <<>> => p.name = w
        /\ w = <<>> => p.name = <<"p", "l", "a", "y", "e", "r", "-">> \o FormatDecimal(p.id)
        /\ (p.name = <<"p", "l", "a", "y", "e", "r", "-">> \o FormatDecimal(p.id)) => w = <<>>
        /\ key[c] # NoKey => p.hash = <<"md5", key[c]>>
        /\ key[c] = NoKey => p.hash = <<"ip", c>>

\* a peer without a key and without a usable name is registered as player-1
\* under its IP address
C13_Witness ==
  \E n \in DOMAIN onlinePlayers :
    /\ n = <<"p", "l", "a", "y", "e", "r", "-", "1">>
    /\ key[onlinePlayers[n]] = NoKey
    /\ players[onlinePlayers[n]].hash = <<"ip", onlinePlayers[n]>>


\* --------------------------------------------------------------- C14
\* the goroutines of server.go are scheduled fairly; resizeWatch, the
\* consumer of p.resizes, may stop receiving at any time
FairServerSpec ==
  /\ Spec
  /\ \A c \in Conns :
       /\ WF_vars(Handle(c))
       /\ WF_vars(Rejecter(c))
       /\ WF_vars(Dispatcher(c))

\* C14: whatever the consumer of the resize queue does, a request that
\* forwards no Resize Event (shell or any other kind) on a live session of a
\* running process is eventually replied to.
C14_OthersNotStalled ==
  \A c \in Conns : \A i \in 1..MaxReqs :
    (Arrived(c, i) /\ ~ForwardsResize(reqs[c][i]))
      ~> (ReplyCount(c, i) = 1 \/ c \notin live \/ crash # "none")


\* --------------------------------------------------------------- C15
\* C15: once the transport of an admitted session is closed, handle, the
\* rejecter and the dispatcher of that connection all come to their end
\* (or the whole process has ended).
C15_FlowsTerminate ==
  \A c \in Conns :
    (Admitted(c) /\ closed[c])
      ~> (\/ crash # "none"
          \/ (pc[c] = "done" /\ rejecter[c] = "done" /\ disp[c] = "done"))


\* --------------------------------------------------------------- C16
\* the flows that are at the map assignment of line 153
Inserting == {c \in Conns : pc[c] = "insert"}

\* C16: at most one flow at a time is inside the insert into onlinePlayers.
C16_InsertSerialized == Cardinality(Inserting) <= 1


\* --------------------------------------------------------------- C17
\* index in reqs[c], from i on, of the k-th request that forwards an event
RECURSIVE ResizeIndex(_, _, _)
ResizeIndex(c, k, i) ==
  IF ForwardsResize(reqs[c][i])
  THEN IF k = 1 THEN i ELSE ResizeIndex(c, k - 1, i + 1)
  ELSE ResizeIndex(c, k, i + 1)

\* C17: the Resize Event forwarded for a pty-req whose 4th byte is L was
\* decoded from the payload at offset L + 4, the sum taken in the integers.
C17_OffsetNoWrap ==
  \A c \in Conns : \A k \in 1..Len(resizes[c]) :
    LET r == reqs[c][ResizeIndex(c, k, 1)]
        L == r.payload[4]
    IN  r.type = "pty-req" =>
          /\ L + 4 <= Len(r.payload)
          /\ resizes[c][k] = parseDims(SubSeq(r.payload, L + 5, Len(r.payload)))


\* --------------------------------------------------------------- C18
\* C18: the insert of a flow puts its Player under its name whether or not
\* the name is taken: the entry then is the inserting session, no other
\* entry, no Player and no other flow changes, and the flow goes on to the
\* send on newPlayers.  The registry never holds more entries than there
\* are admitted sessions.
C18_CollisionOverwrites ==
  /\ [](Cardinality(DOMAIN onlinePlayers)
          <= Cardinality({c \in Conns : Admitted(c)}))
  /\ [][\A c \in Conns :
          (pc[c] = "insert" /\ pc'[c] = "publish") =>
            /\ DOMAIN onlinePlayers' = DOMAIN onlinePlayers \cup {players[c].name}
            /\ onlinePlayers'[players[c].name] = c
            /\ \A n \in DOMAIN onlinePlayers :
                 n # players[c].name => onlinePlayers'[n] = onlinePlayers[n]
            /\ players' = players
            /\ \A d \in Conns \ {c} : pc'[d] = pc[d]]_vars

\* two sessions with one name, both at the send, one entry: the later one
C18_Witness ==
  \E c, d \in Conns :
    /\ c # d
    /\ pc[c] = "publish"
    /\ pc[d] = "publish"
    /\ players[c].name = players[d].name
    /\ DOMAIN onlinePlayers = {players[c].name}
    /\ onlinePlayers[players[c].name] = d


\* --------------------------------------------------------------- C19
\* handle received nil from chans: the queue was closed with nothing offered
NilFirst(c) == rejecter[c] # "none" /\ first[c] = 0

\* C19: a connection whose channel queue closed before any offer builds,
\* registers and publishes nothing, and its flow does not end the process.
C19_NoChannelIsHarmless ==
  \A c \in Conns :
    NilFirst(c) =>
      /\ players[c] = NoPlayer
      /\ c \notin Registered
      /\ pc[c] # "publish"
      /\ crash # "nil channel"


\* --------------------------------------------------------------- C20
\* The pool is handed to NewServer by its caller (line 36) and handle only
\* receives from it, so what it holds is an input.  A receive from a closed,
\* drained pool yields the zero value at once, exactly as the default branch
\* leaves id: both are the empty pool of DrawID.

\* pool with value v put after its first k values
InsertAt(pool, k, v) ==
  SubSeq(pool, 1, k) \o <<v>> \o SubSeq(pool, k + 1, Len(pool))

\* pools in which the supplier put the sentinel among the identities
SentinelPools ==
  UNION { { InsertAt(p, k, NoID) : k \in 0..Len(p) } : p \in InitialPools }

AnyPools == InitialPools \cup SentinelPools

InitAnyPool ==
  /\ pc = [c \in Conns |-> "pending"]
  /\ crash = "none"
  /\ sshName = [c \in Conns |-> <<>>]
  /\ key = [c \in Conns |-> NoKey]
  /\ hash = [c \in Conns |-> <<>>]
  /\ name = [c \in Conns |-> <<>>]
  /\ closed = [c \in Conns |-> FALSE]
  /\ chans = [c \in Conns |-> <<>>]
  /\ taken = [c \in Conns |-> 0]
  /\ first = [c \in Conns |-> 0]
  /\ rejecter = [c \in Conns |-> "none"]
  /\ idPool \in AnyPools
  /\ id = [c \in Conns |-> NoID]
  /\ notice = [c \in Conns |-> FALSE]
  /\ players = [c \in Conns |-> NoPlayer]
  /\ live = {}
  /\ onlinePlayers = [n \in {} |-> 0]
  /\ reqs = [c \in Conns |-> <<>>]
  /\ served = [c \in Conns |-> 0]
  /\ replies = [c \in Conns |-> <<>>]
  /\ disp = [c \in Conns |-> "none"]
  /\ resizes = [c \in Conns |-> <<>>]

SpecAnyPool == InitAnyPool /\ [][Next]_vars

====
